---- MODULE Spec2Model ----
(***************************************************************************)
(* Model of the training-run orchestrator, Experiment                      *)
(* (src/metaworld_algorithms/experiment.py): construction, enable_wandb,   *)
(* run (fresh start or resume, training, final evaluation, final save,     *)
(* artifact publishing, close), over a checkpoint directory that persists  *)
(* across process starts.                                                  *)
(*                                                                         *)
(* The checkpoint store is orbax's CheckpointManager as the orchestrator   *)
(* configures it: max_to_keep together with best_fn keeps the max_to_keep  *)
(* steps of highest best_fn value (ties to the more recent step), the      *)
(* step just saved included in the ranking; save skips a step that is not  *)
(* above the latest retained step; restore of a requested item that the    *)
(* step does not hold raises.                                              *)
(***************************************************************************)
EXTENDS Integers, Sequences, FiniteSets, TLC

\* ------------------------------------------------------------------ bounds
TotalSteps == 2          \* training_config.total_steps of the modelled runs
MaxStarts == 2           \* process starts over one (exp_name, seed) directory
MaxKeep == 2             \* largest max_checkpoints_to_keep explored
MaxStoreStep == 4        \* largest step key in the store-only specification
MaxSaves == 4            \* longest save sequence in the store-only specification

\* Values of the best_checkpoint_metric, in hundredths (0.05, 0.1, 0.3, 0.5).
Metrics == {5, 10, 30, 50}
\* Values the final and the periodic evaluations of the runs produce.
EvalMetrics == {10, 50}
Seeds == {1, 2}
\* The abstract value space of the agent, environments, RNGs and buffer.
Modulus == Cardinality(0 .. 4)

\* ----------------------------------------------------------------- strings
\* A string is the sequence of its character codes, so that an f-string is a
\* concatenation and two ids are equal exactly when their texts are.
RECURSIVE Str(_)
Str(n) == IF n < 10 THEN <<48 + n>> ELSE Str(n \div 10) \o <<48 + (n % 10)>>

Sep == <<95>>
exp_name == <<101, 120, 112>>

\* f"{ts}_{exp_name}_{seed}"
RunIdWithTimestamp(ts, sd) == ts \o Sep \o exp_name \o Sep \o Str(sd)
\* f"{exp_name}_{seed}"
RunIdWithoutTimestamp(sd) == exp_name \o Sep \o Str(sd)

\* ------------------------------------------------------ the checkpoint store
\* A retained step: its key, the value best_fn reads from its metrics, the
\* item names it holds, its metadata item, the state its items serialise,
\* and (history) the start time of the process that wrote it.
AllItems(off) == {"agent", "env_states", "rngs", "metadata"}
                   \union (IF off THEN {"buffer"} ELSE {})
FinalItems == {"agent", "metadata"}

BestFn(r) == r.metric

\* a sorts after b in the ascending, stable sort by best_fn of the steps
\* listed in ascending step order.
OutranksMin(a, b) == \/ BestFn(a) < BestFn(b)
                     \/ BestFn(a) = BestFn(b) /\ a.step > b.step
Outranks(a, b) == \/ BestFn(a) > BestFn(b)
                  \/ BestFn(a) = BestFn(b) /\ a.step > b.step

RetainNewest(S, k) == {r \in S : Cardinality({q \in S : q.step > r.step}) < k}
Retain(S, k) == {r \in S : Cardinality({q \in S : Outranks(q, r)}) < k}

StepsOf(S) == {r.step : r \in S}
HasLatest(S) == S # {}
LatestRec(S) == CHOOSE r \in S : \A q \in S : q.step <= r.step
BestRec(S) == CHOOSE r \in S : \A q \in S : ~Outranks(q, r)
ShouldSave(S, step) == ~HasLatest(S) \/ LatestRec(S).step < step

\* save(step, ...) with the retention pass that follows the write.
SaveAlways(S, k, r) == Retain(S \union {r}, k)
StoreSave(S, k, r) == IF ShouldSave(S, r.step) THEN Retain(S \union {r}, k) ELSE S

\* ------------------------------------------------------------------- state
VARIABLES
  store,          \* retained, durable steps of the checkpoint directory
  dirCreated,     \* the checkpoints/ root exists
  clock,          \* wall-clock second of the latest construction
  seed,           \* seed of the run identity
  cfg,            \* the Experiment's fields
  pc,             \* position of the process
  wandb_enabled,  \* _wandb_enabled
  wandb_run_id,   \* _wandb_run_id (<<>> is None)
  timestamp,      \* _timestamp
  warned,         \* the missing-timestamp warning was printed
  live,           \* algorithm, environments, host RNGs, replay buffer
  stepNo,         \* global step of training
  mode,           \* "none", "fresh" or "resume"
  ckpt,           \* <<r>>: the step restored by run, else <<>>
  hadLatest,      \* latest_step() was not None when run probed it
  inflight,       \* <<r>>: a save whose write is outstanding, else <<>>
  log,            \* operations of run after training, in order
  published,      \* steps whose directory was published as an artifact
  run_timestamp,  \* the run_timestamp handed to train (<<>> before)
  prev,           \* previous start: its tracking id and start time
  saved,          \* store-only specification: the saves written, in order
  final_metrics,  \* <<m>>: the final evaluation's metric, else <<>>
  ppo             \* the MTPPO agent and the outcome of its latest update

vars == <<store, dirCreated, clock, seed, cfg, pc, wandb_enabled, wandb_run_id,
          timestamp, warned, live, stepNo, mode, ckpt, hadLatest, inflight,
          log, published, run_timestamp, prev, saved, final_metrics, ppo>>

procVarsOfRun == <<cfg, pc, wandb_enabled, wandb_run_id, timestamp, warned, live,
                   stepNo, mode, ckpt, hadLatest, inflight, log, published,
                   run_timestamp, prev, clock, seed, dirCreated, final_metrics>>
procVars == <<cfg, pc, wandb_enabled, wandb_run_id, timestamp, warned, live,
              stepNo, mode, ckpt, hadLatest, inflight, log, published,
              run_timestamp, prev, clock, seed, dirCreated, final_metrics, ppo>>

NoState == [agent |-> 0, env |-> 0, rng |-> 0, buf |-> 0]
\* No MTPPO agent is under study in the orchestrator's specifications.
NoUpdate == [agent |-> <<>>, before |-> <<>>, data |-> <<>>, outcome |-> "none",
             logs |-> {}, grads |-> 0, updates |-> 0]
NoCfg == [checkpoint |-> FALSE, resume |-> FALSE, off_policy |-> FALSE,
          max_checkpoints_to_keep |-> 1, accelerator |-> FALSE]

\* ------------------------------------------------ the run's working state
\* envs = env.spawn(seed), algorithm = initialize(seed), random.seed(seed) and
\* np.random.seed(seed): every component is a function of the seed alone.
InitState(sd, off) ==
  [agent |-> sd % Modulus, env |-> (sd + 1) % Modulus,
   rng |-> (sd + 2) % Modulus, buf |-> 0]

\* One step of Algorithm.train: the agent (its PRNG key included) is updated
\* from the environments, the host RNGs and, off-policy, the replay buffer;
\* the environments advance under the agent's actions; the RNGs advance.
TrainStepFn(s, off) ==
  [agent |-> (2 * s.agent + s.env + s.rng + s.buf + 1) % Modulus,
   env |-> (s.env + 2 * s.agent + s.rng) % Modulus,
   rng |-> (3 * s.rng + 1) % Modulus,
   buf |-> IF off THEN (s.buf + s.env + 1) % Modulus ELSE 0]

\* The bundle a periodic save writes for the family.
PeriodicRec(step, m, s, off, ts, w) ==
  [step |-> step, metric |-> m, items |-> AllItems(off),
   metadata |-> [step |-> step, timestamp |-> ts],
   snap |-> s, writer |-> w]

\* get_last_agent_checkpoint_save_args(agent, final_metrics): the agent and
\* the metrics are all it is given.
FinalRec(step, m, s, w) ==
  [step |-> step, metric |-> m, items |-> FinalItems,
   metadata |-> [mean_success_rate |-> m],
   snap |-> [NoState EXCEPT !.agent = s.agent], writer |-> w]

\* ---------------------------------------------------------- enable_wandb
LatestMetadata(S) == IF HasLatest(S) THEN <<LatestRec(S).metadata>> ELSE <<>>

\* latest_ckpt_metadata.get("timestamp") is neither None nor "".
HasTimestamp(md) == "timestamp" \in DOMAIN md /\ md.timestamp # <<>>

RunIdAlwaysFresh(md, resume, ts, sd) == RunIdWithTimestamp(ts, sd)
RunId(md, resume, ts, sd) ==
  IF md # <<>> /\ resume
    THEN IF ~HasTimestamp(md[1])
           THEN RunIdWithoutTimestamp(sd)
           ELSE RunIdWithTimestamp(md[1].timestamp, sd)
    ELSE RunIdWithTimestamp(ts, sd)

Warns(md, resume) == md # <<>> /\ resume /\ ~HasTimestamp(md[1])

\* ------------------------------------------------------------------- run
ShouldResumeIgnoringFlag(c, S) == c.checkpoint /\ HasLatest(S)
ShouldResume(c, S) == c.checkpoint /\ c.resume /\ HasLatest(S)

\* checkpoint_manager.restore(latest, args=get_checkpoint_restore_args(
\* algorithm, rb)) finds every item it asks for; rb is None on-policy.
RestoreFindsWithoutBuffer(r, off) == AllItems(FALSE) \subseteq r.items
RestoreFinds(r, off) == AllItems(off) \subseteq r.items

RestoredKeepingRng(fresh, r, off) ==
  [agent |-> r.snap.agent, env |-> r.snap.env, rng |-> fresh.rng,
   buf |-> IF off THEN r.snap.buf ELSE fresh.buf]
Restored(fresh, r, off) ==
  [agent |-> r.snap.agent, env |-> r.snap.env, rng |-> r.snap.rng,
   buf |-> IF off THEN r.snap.buf ELSE fresh.buf]

\* checkpoint_metadata.get("timestamp", self._timestamp)
TimestampAfterRestore(md, ts) ==
  IF "timestamp" \in DOMAIN md THEN md.timestamp ELSE ts

\* if self._wandb_enabled: if self.checkpoint: evaluate, final save, publish
FinalizesAlways(c, w) == TRUE
Finalizes(c, w) == w /\ c.checkpoint

FinalStep == TotalSteps + 1

Configs ==
  [checkpoint : BOOLEAN, resume : BOOLEAN, off_policy : BOOLEAN,
   max_checkpoints_to_keep : 1 .. MaxKeep, accelerator : BOOLEAN]

Aborted == {"abort_device", "abort_probe", "abort_restore", "abort_publish"}
Terminal == Aborted \union {"closed", "killed"}

\* ------------------------------------------------ store-only specification
StoreRec(step, m) ==
  [step |-> step, metric |-> m, items |-> AllItems(FALSE),
   metadata |-> [step |-> step, timestamp |-> Str(1)],
   snap |-> NoState, writer |-> 1]

InitStore ==
  /\ store = {}
  /\ dirCreated = TRUE
  /\ clock = 1
  /\ seed = 1
  /\ cfg \in {[NoCfg EXCEPT !.checkpoint = TRUE, !.accelerator = TRUE,
                            !.max_checkpoints_to_keep = k] : k \in 1 .. MaxKeep + 1}
  /\ pc = "store"
  /\ wandb_enabled = FALSE
  /\ wandb_run_id = <<>>
  /\ timestamp = Str(1)
  /\ warned = FALSE
  /\ live = NoState
  /\ stepNo = 0
  /\ mode = "none"
  /\ ckpt = <<>>
  /\ hadLatest = FALSE
  /\ inflight = <<>>
  /\ log = <<>>
  /\ published = <<>>
  /\ run_timestamp = <<>>
  /\ prev = <<>>
  /\ saved = <<>>
  /\ final_metrics = <<>>
  /\ ppo = NoUpdate

\* checkpoint_manager.save(step, metrics=m) on the manager of lines 125-133.
SaveStep ==
  /\ Len(saved) < MaxSaves
  /\ \E step \in 1 .. MaxStoreStep, m \in Metrics :
       /\ store' = StoreSave(store, cfg.max_checkpoints_to_keep, StoreRec(step, m))
       /\ saved' = IF ShouldSave(store, step)
                     THEN Append(saved, <<step, m>>) ELSE saved
  /\ UNCHANGED procVars

NextStore == SaveStep
SpecStore == InitStore /\ [][NextStore]_vars

\* ------------------------------------------------- the orchestrator
\* The uninterrupted run of the same seed and family, after n steps.
RECURSIVE RefState(_, _, _)
RefState(sd, off, n) ==
  IF n = 0 THEN InitState(sd, off) ELSE TrainStepFn(RefState(sd, off, n - 1), off)

\* A checkpoint an earlier version of the program left at step 1: every item
\* of its family, and metadata whose timestamp is absent or empty.
LegacyRecs(sd) ==
  {[step |-> 1, metric |-> 30, items |-> AllItems(off), metadata |-> md,
    snap |-> RefState(sd, off, 1), writer |-> 0] :
     off \in BOOLEAN, md \in {[step |-> 1], [step |-> 1, timestamp |-> <<>>]}}

\* __post_init__ of an Experiment constructed at second t.
Constructed(c, t) ==
  /\ cfg' = c
  /\ clock' = t
  /\ pc' = "constructed"
  /\ wandb_enabled' = FALSE
  /\ wandb_run_id' = <<>>
  /\ timestamp' = Str(t)
  /\ warned' = FALSE
  /\ live' = NoState
  /\ stepNo' = 0
  /\ mode' = "none"
  /\ ckpt' = <<>>
  /\ hadLatest' = FALSE
  /\ inflight' = <<>>
  /\ log' = <<>>
  /\ published' = <<>>
  /\ run_timestamp' = <<>>
  /\ final_metrics' = <<>>

Init ==
  /\ seed \in Seeds
  /\ store \in {{}} \union {{r} : r \in LegacyRecs(seed)}
  /\ dirCreated = (store # {})
  /\ clock = 1
  /\ cfg \in Configs
  /\ pc = "constructed"
  /\ wandb_enabled = FALSE
  /\ wandb_run_id = <<>>
  /\ timestamp = Str(1)
  /\ warned = FALSE
  /\ live = NoState
  /\ stepNo = 0
  /\ mode = "none"
  /\ ckpt = <<>>
  /\ hadLatest = FALSE
  /\ inflight = <<>>
  /\ log = <<>>
  /\ published = <<>>
  /\ run_timestamp = <<>>
  /\ prev = <<>>
  /\ saved = <<>>
  /\ final_metrics = <<>>
  /\ ppo = NoUpdate

\* enable_wandb: the metadata-only probe (which creates the root), the id.
EnableWandb ==
  /\ pc = "constructed"
  /\ ~wandb_enabled
  /\ wandb_enabled' = TRUE
  /\ dirCreated' = TRUE
  /\ IF HasLatest(store) /\ "metadata" \notin LatestRec(store).items
       THEN /\ pc' = "abort_probe"
            /\ UNCHANGED <<wandb_run_id, warned>>
       ELSE /\ wandb_run_id' = RunId(LatestMetadata(store), cfg.resume, timestamp, seed)
            /\ warned' = Warns(LatestMetadata(store), cfg.resume)
            /\ pc' = pc
  /\ UNCHANGED <<store, clock, seed, cfg, timestamp, live, stepNo, mode, ckpt,
                 hadLatest, inflight, log, published, run_timestamp, prev, saved, final_metrics, ppo>>

\* run, lines 95-98: no GPU and no TPU.
RunNoAccelerator ==
  /\ pc = "constructed"
  /\ ~cfg.accelerator
  /\ pc' = "abort_device"
  /\ UNCHANGED <<store, dirCreated, clock, seed, cfg, wandb_enabled, wandb_run_id,
                 timestamp, warned, live, stepNo, mode, ckpt, hadLatest, inflight,
                 log, published, run_timestamp, prev, saved, final_metrics, ppo>>

\* run, lines 100-181: spawn, initialize, seed, open the store, restore when
\* resuming, and enter train.
RunSetup ==
  /\ pc = "constructed"
  /\ cfg.accelerator
  /\ hadLatest' = HasLatest(store)
  /\ dirCreated' = (dirCreated \/ cfg.checkpoint)
  /\ LET fresh == InitState(seed, cfg.off_policy) IN
       IF ShouldResume(cfg, store)
         THEN LET r == LatestRec(store) IN
                IF RestoreFinds(r, cfg.off_policy)
                  THEN /\ live' = Restored(fresh, r, cfg.off_policy)
                       /\ ckpt' = <<r>>
                       /\ timestamp' = TimestampAfterRestore(r.metadata, timestamp)
                       /\ run_timestamp' = TimestampAfterRestore(r.metadata, timestamp)
                       /\ stepNo' = r.metadata.step
                       /\ mode' = "resume"
                       /\ pc' = "running"
                  ELSE /\ live' = fresh
                       /\ mode' = "resume"
                       /\ pc' = "abort_restore"
                       /\ UNCHANGED <<ckpt, timestamp, run_timestamp, stepNo>>
         ELSE /\ live' = fresh
              /\ mode' = "fresh"
              /\ run_timestamp' = timestamp
              /\ pc' = "running"
              /\ UNCHANGED <<ckpt, timestamp, stepNo>>
  /\ UNCHANGED <<store, clock, seed, cfg, wandb_enabled, wandb_run_id, warned,
                 inflight, log, published, prev, saved, final_metrics, ppo>>

\* One step of train; with a checkpoint manager, the periodic save of the new
\* step with the current evaluation metrics (save first waits for the
\* previous write).
TrainStep ==
  /\ pc = "running"
  /\ stepNo < TotalSteps
  /\ stepNo' = stepNo + 1
  /\ live' = TrainStepFn(live, cfg.off_policy)
  /\ IF cfg.checkpoint
       THEN /\ inflight = <<>>
            /\ \E m \in EvalMetrics :
                 inflight' = IF ShouldSave(store, stepNo + 1)
                               THEN <<PeriodicRec(stepNo + 1, m,
                                        TrainStepFn(live, cfg.off_policy),
                                        cfg.off_policy, run_timestamp, clock)>>
                               ELSE <<>>
       ELSE UNCHANGED inflight
  /\ UNCHANGED <<store, dirCreated, clock, seed, cfg, pc, wandb_enabled,
                 wandb_run_id, timestamp, warned, mode, ckpt, hadLatest, log,
                 published, run_timestamp, prev, saved, final_metrics, ppo>>

\* The asynchronous write becomes durable; the retention pass follows it.
FinishWrite ==
  /\ inflight # <<>>
  /\ store' = SaveAlways(store, cfg.max_checkpoints_to_keep, inflight[1])
  /\ inflight' = <<>>
  /\ UNCHANGED <<dirCreated, clock, seed, cfg, pc, wandb_enabled, wandb_run_id,
                 timestamp, warned, live, stepNo, mode, ckpt, hadLatest, log,
                 published, run_timestamp, prev, saved, final_metrics, ppo>>

\* The process is stopped during training; an unfinished write is lost.
Interrupt ==
  /\ pc = "running"
  /\ pc' = "killed"
  /\ inflight' = <<>>
  /\ UNCHANGED <<store, dirCreated, clock, seed, cfg, wandb_enabled, wandb_run_id,
                 timestamp, warned, live, stepNo, mode, ckpt, hadLatest, log,
                 published, run_timestamp, prev, saved, final_metrics, ppo>>

\* train returns.
TrainReturn ==
  /\ pc = "running"
  /\ stepNo >= TotalSteps
  /\ log' = Append(log, "train_return")
  /\ pc' = IF Finalizes(cfg, wandb_enabled) THEN "evaluate" ELSE "close"
  /\ UNCHANGED <<store, dirCreated, clock, seed, cfg, wandb_enabled, wandb_run_id,
                 timestamp, warned, live, stepNo, mode, ckpt, hadLatest, inflight,
                 published, run_timestamp, prev, saved, final_metrics, ppo>>

\* self.env.evaluate(envs, agent): the final metrics.
Evaluate ==
  /\ pc = "evaluate"
  /\ \E m \in EvalMetrics : final_metrics' = <<m>>
  /\ log' = Append(log, "evaluate")
  /\ pc' = "final_save"
  /\ UNCHANGED <<store, dirCreated, clock, seed, cfg, wandb_enabled, wandb_run_id,
                 timestamp, warned, live, stepNo, mode, ckpt, hadLatest, inflight,
                 published, run_timestamp, prev, saved, ppo>>

\* checkpoint_manager.save(total_steps + 1, ..., metrics=final_metrics)
FinalSave ==
  /\ pc = "final_save"
  /\ inflight = <<>>
  /\ inflight' = IF ShouldSave(store, FinalStep)
                   THEN <<FinalRec(FinalStep, final_metrics[1], live, clock)>>
                   ELSE <<>>
  /\ log' = Append(log, "save_final")
  /\ pc' = "wait"
  /\ UNCHANGED <<store, dirCreated, clock, seed, cfg, wandb_enabled, wandb_run_id,
                 timestamp, warned, live, stepNo, mode, ckpt, hadLatest,
                 published, run_timestamp, prev, saved, final_metrics, ppo>>

\* checkpoint_manager.wait_until_finished() returns.
WaitUntilFinished ==
  /\ pc = "wait"
  /\ inflight = <<>>
  /\ log' = Append(log, "wait")
  /\ pc' = "publish_final"
  /\ UNCHANGED <<store, dirCreated, clock, seed, cfg, wandb_enabled, wandb_run_id,
                 timestamp, warned, live, stepNo, mode, ckpt, hadLatest, inflight,
                 published, run_timestamp, prev, saved, final_metrics, ppo>>

\* final_ckpt_artifact.add_dir(final_ckpt_dir); wandb.log_artifact: add_dir
\* raises when the directory of step total_steps + 1 does not exist.
PublishFinal ==
  /\ pc = "publish_final"
  /\ IF FinalStep \in StepsOf(store)
       THEN /\ published' = Append(published, FinalStep)
            /\ log' = Append(log, "publish_final")
            /\ pc' = "best_step"
       ELSE /\ pc' = "abort_publish"
            /\ UNCHANGED <<published, log>>
  /\ UNCHANGED <<store, dirCreated, clock, seed, cfg, wandb_enabled, wandb_run_id,
                 timestamp, warned, live, stepNo, mode, ckpt, hadLatest, inflight,
                 run_timestamp, prev, saved, final_metrics, ppo>>

\* best_step = checkpoint_manager.best_step(); assert best_step is not None
QueryBestStep ==
  /\ pc = "best_step"
  /\ IF HasLatest(store)
       THEN /\ log' = Append(log, "best_step")
            /\ pc' = "publish_best"
       ELSE /\ pc' = "abort_publish"
            /\ UNCHANGED log
  /\ UNCHANGED <<store, dirCreated, clock, seed, cfg, wandb_enabled, wandb_run_id,
                 timestamp, warned, live, stepNo, mode, ckpt, hadLatest, inflight,
                 published, run_timestamp, prev, saved, final_metrics, ppo>>

\* best_ckpt_artifact.add_dir(best_ckpt_dir); wandb.log_artifact
PublishBest ==
  /\ pc = "publish_best"
  /\ published' = Append(published, BestRec(store).step)
  /\ log' = Append(log, "publish_best")
  /\ pc' = "close"
  /\ UNCHANGED <<store, dirCreated, clock, seed, cfg, wandb_enabled, wandb_run_id,
                 timestamp, warned, live, stepNo, mode, ckpt, hadLatest, inflight,
                 run_timestamp, prev, saved, final_metrics, ppo>>

\* if checkpoint_manager is not None: checkpoint_manager.close() (which waits
\* for an outstanding write); run returns.
Close ==
  /\ pc = "close"
  /\ cfg.checkpoint => inflight = <<>>
  /\ log' = IF cfg.checkpoint THEN Append(log, "close") ELSE log
  /\ pc' = "closed"
  /\ UNCHANGED <<store, dirCreated, clock, seed, cfg, wandb_enabled, wandb_run_id,
                 timestamp, warned, live, stepNo, mode, ckpt, hadLatest, inflight,
                 published, run_timestamp, prev, saved, final_metrics, ppo>>

\* The process has ended; a later process is started on the same directory.
NewStart ==
  /\ pc \in Terminal
  /\ clock < MaxStarts
  /\ \E c \in Configs : Constructed(c, clock + 1)
  /\ prev' = <<wandb_run_id>>
  /\ UNCHANGED <<store, dirCreated, seed, saved, ppo>>

Next ==
  \/ EnableWandb
  \/ RunNoAccelerator
  \/ RunSetup
  \/ TrainStep
  \/ FinishWrite
  \/ Interrupt
  \/ TrainReturn
  \/ Evaluate
  \/ FinalSave
  \/ WaitUntilFinished
  \/ PublishFinal
  \/ QueryBestStep
  \/ PublishBest
  \/ Close
  \/ NewStart

Spec == Init /\ [][Next]_vars

\* ------------------------------------------------- MTPPO.update
\* Updates one agent receives in the specification of update.
MaxUpdates == 3

\* A batch is its type and the names of its attributes that are not None.
ReplayBufferSamples ==
  [kind |-> "ReplayBufferSamples",
   fields |-> {"observations", "actions", "next_observations", "dones", "rewards"}]
RolloutRequired == {"observations", "actions", "rewards", "dones"}
RolloutOptional == {"log_probs", "values", "returns", "advantages"}
Rollout(opt) == [kind |-> "Rollout", fields |-> RolloutRequired \union opt]
Batches == {ReplayBufferSamples} \union {Rollout(opt) : opt \in SUBSET RolloutOptional}
Has(data, f) == f \in data.fields

\* jax.random.split(self.key, 2)[0]: a key different from self.key.
split(key) == (2 * key + 1) % Modulus

\* MTPPO.initialize(config, env_config, seed): both train states at step 0.
initialize(clip, norm, sd) ==
  [policy |-> 0, value_function |-> 0, key |-> split(sd),
   clip_vf_loss |-> clip, normalize_advantages |-> norm]

PolicyLogs == {"losses/entropy_loss", "losses/policy_loss", "losses/approx_kl",
               "losses/clip_fracs"}
ValueFunctionLogs == {"losses/value_function", "losses/values"}

\* update_policy: the loss subtracts data.log_probs and multiplies by
\* data.advantages; a None operand raises while the loss is evaluated.
update_policy(self, data) ==
  IF ~Has(data, "log_probs") \/ ~Has(data, "advantages")
    THEN [outcome |-> "TypeError", self |-> self, logs |-> {}, grads |-> 1]
    ELSE [outcome |-> "ok",
          self |-> [self EXCEPT !.policy = self.policy + 1, !.key = split(self.key)],
          logs |-> PolicyLogs, grads |-> 1]

\* update_value_function: the assert of the loss, then the clipped or the
\* plain loss; the clipped loss adds data.values, which the assert made None.
update_value_function(self, data) ==
  IF ~(~Has(data, "values") /\ Has(data, "returns"))
    THEN [outcome |-> "AssertionError", self |-> self, logs |-> {}, grads |-> 1]
  ELSE IF self.clip_vf_loss
    THEN [outcome |-> "TypeError", self |-> self, logs |-> {}, grads |-> 1]
    ELSE [outcome |-> "ok",
          self |-> [self EXCEPT !.value_function = self.value_function + 1],
          logs |-> ValueFunctionLogs, grads |-> 1]

\* _update_inner: update_policy, then update_value_function on its result;
\* an exception of either leaves the caller with the agent it had.
update_inner(self, data) ==
  LET p == update_policy(self, data)
      v == update_value_function(p.self, data)
  IN  IF p.outcome # "ok"
        THEN [outcome |-> p.outcome, self |-> self, logs |-> {}, grads |-> p.grads]
      ELSE IF v.outcome # "ok"
        THEN [outcome |-> v.outcome, self |-> self, logs |-> {},
              grads |-> p.grads + v.grads]
        ELSE [outcome |-> "ok", self |-> v.self, logs |-> p.logs \union v.logs,
              grads |-> p.grads + v.grads]

UpdateAcceptsAnyBatch(data) == TRUE

\* The four asserts of update.
UpdateAccepts(data) ==
  /\ data.kind = "Rollout"
  /\ Has(data, "log_probs")
  /\ Has(data, "advantages")
  /\ Has(data, "returns")

update(self, data) ==
  IF ~UpdateAccepts(data)
    THEN [outcome |-> "AssertionError", self |-> self, logs |-> {}, grads |-> 0]
    ELSE update_inner(self, data)

InitPPO ==
  /\ store = {}
  /\ dirCreated = FALSE
  /\ clock = 1
  /\ seed \in Seeds
  /\ cfg = NoCfg
  /\ pc = "ppo"
  /\ wandb_enabled = FALSE
  /\ wandb_run_id = <<>>
  /\ timestamp = Str(1)
  /\ warned = FALSE
  /\ live = NoState
  /\ stepNo = 0
  /\ mode = "none"
  /\ ckpt = <<>>
  /\ hadLatest = FALSE
  /\ inflight = <<>>
  /\ log = <<>>
  /\ published = <<>>
  /\ run_timestamp = <<>>
  /\ prev = <<>>
  /\ saved = <<>>
  /\ final_metrics = <<>>
  /\ \E clip \in BOOLEAN, norm \in BOOLEAN :
       ppo = [NoUpdate EXCEPT !.agent = initialize(clip, norm, seed),
                              !.before = initialize(clip, norm, seed)]

\* agent, logs = agent.update(data), the caller keeping its agent on an error.
Update ==
  /\ pc = "ppo"
  /\ ppo.updates < MaxUpdates
  /\ \E data \in Batches :
       LET r == update(ppo.agent, data)
       IN  ppo' = [agent |-> r.self, before |-> ppo.agent, data |-> data,
                   outcome |-> r.outcome, logs |-> r.logs, grads |-> r.grads,
                   updates |-> ppo.updates + 1]
  /\ UNCHANGED <<store, saved>>
  /\ UNCHANGED procVarsOfRun

NextPPO == Update
SpecPPO == InitPPO /\ [][NextPPO]_vars

\* -------------------------------------------------- claims on the store
MaxOf(S) == CHOOSE x \in S : \A y \in S : y <= x
SavedMetrics == {saved[i][2] : i \in DOMAIN saved}

\* C3: after any sequence of saves with arbitrary metric values on the store
\* as the orchestrator configures it, at most max_checkpoints_to_keep steps
\* are retained, and a step saved with the maximum metric value of all saves
\* so far is still retained, however old it is.
C3_RetentionInvariant ==
  pc = "store" =>
    /\ Cardinality(store) <= cfg.max_checkpoints_to_keep
    /\ saved # <<>> =>
         \E i \in DOMAIN saved :
           /\ saved[i][2] = MaxOf(SavedMetrics)
           /\ \E r \in store : r.step = saved[i][1] /\ r.metric = saved[i][2]

\* The oldest step holds the best metric and survives three later saves
\* that filled the store.
C3_Witness ==
  /\ pc = "store"
  /\ Len(saved) = 4
  /\ saved[1] = <<1, 50>>
  /\ \A i \in 2 .. 4 : saved[i][2] < 50
  /\ 1 \in StepsOf(store)
  /\ Cardinality(store) = cfg.max_checkpoints_to_keep
  /\ cfg.max_checkpoints_to_keep = 2

ScenarioThree == <<(<<1, 10>>), (<<2, 50>>), (<<3, 30>>)>>
ScenarioFour == Append(ScenarioThree, <<4, 5>>)

Started == pc \notin {"constructed", "abort_device", "abort_probe", "store"}
InTraining ==
  pc \in {"running", "killed", "evaluate", "final_save", "wait", "publish_final",
          "best_step", "publish_best", "close", "closed", "abort_publish"}
StartStepOf == IF ckpt = <<>> THEN 0 ELSE ckpt[1].metadata.step
\* run has entered train and no step of train has been taken yet, so the
\* store is still as run found it.
AtEntry == pc = "running" /\ stepNo = StartStepOf
Count(e) == Cardinality({i \in DOMAIN log : log[i] = e})
Logged(e) == Count(e) > 0
IndexOf(e) == CHOOSE i \in DOMAIN log : log[i] = e
Before(a, b) == Logged(a) /\ Logged(b) /\ IndexOf(a) < IndexOf(b)

\* C1: run takes the resume path if and only if checkpointing is enabled,
\* resume is requested and the store reports a latest step; in every other
\* combination it starts fresh: the algorithm, the environments and the host
\* RNGs are those of the seed, nothing is restored and _timestamp is the
\* construction time.
C1_ResumeIff ==
  /\ Started =>
       /\ mode \in {"fresh", "resume"}
       /\ mode = "resume" <=> (cfg.checkpoint /\ cfg.resume /\ hadLatest)
       /\ mode = "fresh" => ckpt = <<>> /\ run_timestamp = Str(clock)
       /\ (mode = "resume" /\ pc # "abort_restore") => ckpt # <<>>
  /\ (AtEntry \/ pc = "abort_restore") =>
       (mode = "resume" <=> (cfg.checkpoint /\ cfg.resume /\ store # {}))
  /\ (AtEntry /\ mode = "fresh") =>
       /\ live.agent = seed % Modulus
       /\ live.env = (seed + 1) % Modulus
       /\ live.rng = (seed + 2) % Modulus
       /\ live.buf = 0
       /\ stepNo = 0

\* A second start resumes from a checkpoint the first start wrote, while a
\* start with resume requested and checkpointing disabled would not.
C1_Witness ==
  /\ AtEntry
  /\ mode = "resume"
  /\ clock = 2
  /\ ckpt[1].writer = 1
  /\ live # InitState(seed, cfg.off_policy)

\* C2: a resume is all-or-nothing and fatal on failure: a run that enters
\* train after a resume holds the agent, the environment states, the host RNG
\* states and (off-policy) the replay buffer of the one latest step, which
\* holds every item of the family; when the latest step lacks a required
\* item the run aborts before train, with nothing restored, and never falls
\* back to a fresh start.
C2_ResumeAllOrNothing ==
  /\ (Started /\ mode = "resume" /\ pc # "abort_restore") =>
       /\ ckpt # <<>>
       /\ AllItems(cfg.off_policy) \subseteq ckpt[1].items
  /\ (AtEntry /\ mode = "resume") =>
       /\ ckpt[1] = LatestRec(store)
       /\ live.agent = ckpt[1].snap.agent
       /\ live.env = ckpt[1].snap.env
       /\ live.rng = ckpt[1].snap.rng
       /\ cfg.off_policy => live.buf = ckpt[1].snap.buf
  /\ (AtEntry /\ cfg.checkpoint /\ cfg.resume /\ store # {}) =>
       /\ mode = "resume"
       /\ AllItems(cfg.off_policy) \subseteq LatestRec(store).items
  /\ pc = "abort_restore" =>
       /\ mode = "resume"
       /\ ~(AllItems(cfg.off_policy) \subseteq LatestRec(store).items)
       /\ ckpt = <<>>
       /\ run_timestamp = <<>>
       /\ log = <<>>
       /\ stepNo = 0

\* An off-policy run whose latest step holds every item but "buffer" aborts.
C2_Witness ==
  /\ pc = "abort_restore"
  /\ cfg.off_policy
  /\ LatestRec(store).items = AllItems(FALSE)

\* C4 as stated: after the final save (step total_steps + 1) and the
\* retention pass that follows it, the final step is still in the store, for
\* every max_checkpoints_to_keep >= 1 and every combination of metric values.
C4_FinalStepRetained ==
  Logged("wait") => FinalStep \in StepsOf(store)

\* C6 as stated: every run whose training returns passes through Evaluating
\* exactly once and then Finalizing (one final save) before it reaches
\* Closed, and Evaluating is never entered before training has returned,
\* whether or not tracking is enabled.
C6_Original ==
  /\ pc = "closed" =>
       /\ Count("evaluate") = 1
       /\ Count("save_final") = 1
       /\ Before("train_return", "evaluate")
       /\ Before("evaluate", "save_final")
  /\ Logged("evaluate") => (log[1] = "train_return" /\ stepNo >= TotalSteps)

\* C6 as amended: a run with both tracking and checkpointing enabled whose
\* training returns passes through Evaluating exactly once and then
\* Finalizing (one final save carrying the evaluation's metrics) before it
\* reaches Closed; a run with tracking or checkpointing disabled reaches
\* Closed with no evaluation and no final save; Evaluating is never entered
\* before training has returned.
C6_Amended ==
  /\ (pc = "closed" /\ wandb_enabled /\ cfg.checkpoint) =>
       /\ Count("evaluate") = 1
       /\ Count("save_final") = 1
       /\ Before("train_return", "evaluate")
       /\ Before("evaluate", "save_final")
       /\ Before("save_final", "close")
  /\ (pc = "closed" /\ ~(wandb_enabled /\ cfg.checkpoint)) =>
       /\ Count("evaluate") = 0
       /\ Count("save_final") = 0
       /\ Logged("train_return")
  /\ Logged("evaluate") => (log[1] = "train_return" /\ stepNo >= TotalSteps)
  /\ (inflight # <<>> /\ inflight[1].step = FinalStep) =>
       (final_metrics # <<>> /\ inflight[1].metric = final_metrics[1])
  /\ Count("evaluate") <= 1
  /\ Count("save_final") <= 1

C6_Witness ==
  /\ pc = "closed"
  /\ wandb_enabled
  /\ cfg.checkpoint
  /\ log = <<"train_return", "evaluate", "save_final", "wait", "publish_final",
             "best_step", "publish_best", "close">>

\* C7 as stated: the final save is issued first, then the barrier completes,
\* and only then are artifacts published; no publish occurs while a write is
\* outstanding, the best step is queried only after the barrier, and exactly
\* two artifacts are published (final and best).
C7_FinalizingOrder ==
  /\ Logged("wait") => Before("save_final", "wait")
  /\ Logged("publish_final") => (Before("wait", "publish_final") /\ inflight = <<>>)
  /\ Logged("best_step") => Before("wait", "best_step")
  /\ Logged("publish_best") => (Before("best_step", "publish_best") /\ inflight = <<>>)
  /\ Len(published) = Count("publish_final") + Count("publish_best")
  /\ (Logged("save_final") /\ pc \in Terminal) =>
       /\ Len(published) = 2
       /\ published[1] = FinalStep
       /\ published[2] = BestRec(store).step

\* C8: after enable_wandb, with resume requested and a latest checkpoint
\* whose metadata has a non-empty timestamp T the id is "{T}_{name}_{seed}";
\* with a missing or empty timestamp it is "{name}_{seed}" and the warning
\* was printed; with resume not requested or no checkpoint it is
\* "{t0}_{name}_{seed}", t0 the construction time, and no warning.
C8_ResumeIdDerivation ==
  (pc = "constructed" /\ wandb_enabled) =>
    LET name_seed == exp_name \o <<95>> \o Str(seed) IN
      IF cfg.resume /\ store # {}
        THEN LET md == LatestRec(store).metadata IN
               IF "timestamp" \in DOMAIN md /\ Len(md.timestamp) > 0
                 THEN /\ wandb_run_id = md.timestamp \o <<95>> \o name_seed
                      /\ ~warned
                 ELSE /\ wandb_run_id = name_seed
                      /\ warned
        ELSE /\ wandb_run_id = Str(clock) \o <<95>> \o name_seed
             /\ ~warned

\* The second start derives its id from the timestamp the first start wrote.
C8_Witness ==
  /\ pc = "constructed"
  /\ wandb_enabled
  /\ cfg.resume
  /\ clock = 2
  /\ store # {}
  /\ LatestRec(store).metadata = [step |-> LatestRec(store).step, timestamp |-> Str(1)]
  /\ wandb_run_id = <<49, 95, 101, 120, 112, 95>> \o Str(seed)

\* A start that resumed from the checkpoint the previous start wrote derives
\* the previous start's tracking id.
C9_IdStable ==
  (/\ wandb_run_id # <<>>
   /\ prev # <<>>
   /\ prev[1] # <<>>
   /\ mode = "resume"
   /\ ckpt # <<>>
   /\ ckpt[1].writer = clock - 1) => wandb_run_id = prev[1]

\* The run_timestamp a resumed start hands to train is the timestamp of its id.
C9_TimestampInId ==
  (/\ wandb_run_id # <<>>
   /\ InTraining
   /\ mode = "resume") =>
     wandb_run_id = run_timestamp \o <<95>> \o exp_name \o <<95>> \o Str(seed)

\* C9 as stated: every start that resumes from the latest checkpoint written
\* by the previous start derives the same tracking id as that start, and the
\* run_timestamp handed to train is the timestamp embedded in the id, also
\* when the first resumed checkpoint has no timestamp in its metadata.
C9_StableTrackingId == C9_IdStable /\ C9_TimestampInId

\* The start is a fresh one, or resumed from a checkpoint that a run of the
\* same seed and family on the uninterrupted trajectory took.
OnReference ==
  \/ mode = "fresh"
  \/ /\ mode = "resume"
     /\ ckpt # <<>>
     /\ ("buffer" \in ckpt[1].items) = cfg.off_policy
     /\ ckpt[1].snap = RefState(seed, cfg.off_policy, ckpt[1].metadata.step)

C11_AcceleratorAbortFirst ==
  pc = "abort_device" =>
    /\ ~wandb_enabled
    /\ wandb_run_id = <<>>
    /\ mode = "none"
    /\ live = NoState
    /\ (clock = 1 /\ store = {}) => ~dirCreated

\* C12 as stated: every step the store reports as latest holds every item of
\* the family that wrote it: agent, env_states, rngs, metadata, and buffer
\* when the process that wrote it is off-policy; the final step included.
C12_LatestHoldsAllItems ==
  (store # {} /\ pc # "store") =>
    /\ AllItems(FALSE) \subseteq LatestRec(store).items
    /\ LatestRec(store).writer = clock =>
         AllItems(cfg.off_policy) \subseteq LatestRec(store).items

\* C13 as stated: a run with checkpointing enabled whose training returned
\* and that has ended released the handle exactly once, as its last
\* operation, with no write outstanding; a run with checkpointing disabled
\* never opens or releases a handle.
C13_ClosedAfterDurability ==
  /\ (pc \in Terminal /\ Logged("train_return") /\ cfg.checkpoint) =>
       /\ Count("close") = 1
       /\ log[Len(log)] = "close"
       /\ inflight = <<>>
  /\ Count("close") <= 1
  /\ Logged("close") => (pc = "closed" /\ inflight = <<>> /\ cfg.checkpoint)
  /\ (Started /\ ~cfg.checkpoint) =>
       /\ ~Logged("close")
       /\ inflight = <<>>
       /\ (clock = 1 /\ store = {} /\ ~wandb_enabled) => ~dirCreated

\* C15 as stated: no save is issued for a step key that already exists in
\* the store, neither by a periodic save of train nor by the final save at
\* total_steps + 1.
C15_NoSaveOnExistingStep ==
  [][/\ (pc = "final_save" /\ pc' = "wait") => FinalStep \notin StepsOf(store)
     /\ (pc = "running" /\ stepNo' = stepNo + 1 /\ cfg.checkpoint) =>
          (stepNo + 1) \notin StepsOf(store)]_vars

\* C16 as stated: whenever run starts fresh the tracking id is the fresh
\* "{t0}_{name}_{seed}", and with checkpointing disabled the probe of
\* enable_wandb neither reads nor creates anything in the checkpoint
\* directory.
C16_IdAgreesWithStartMode ==
  /\ (InTraining /\ mode = "fresh" /\ wandb_enabled) =>
       /\ wandb_run_id = Str(clock) \o <<95>> \o exp_name \o <<95>> \o Str(seed)
       /\ ~warned
  /\ (wandb_enabled /\ ~cfg.checkpoint /\ clock = 1 /\ store = {}) => ~dirCreated

\* C14: an update called with ReplayBufferSamples, or with a Rollout lacking
\* log_probs, advantages or returns, ends in an error raised before any
\* gradient is computed, and the caller's agent (policy, value function and
\* PRNG key) is the one it had before the call.
C14_WrongBatchRejected ==
  (ppo.outcome # "none" /\
   (ppo.data.kind # "Rollout" \/
    ~({"log_probs", "advantages", "returns"} \subseteq ppo.data.fields))) =>
    /\ ppo.outcome = "AssertionError"
    /\ ppo.grads = 0
    /\ ppo.logs = {}
    /\ ppo.agent = ppo.before

C14_Witness ==
  /\ pc = "ppo"
  /\ ppo.outcome = "AssertionError"
  /\ ppo.data = ReplayBufferSamples
  /\ ppo.agent.policy > 0
  /\ ppo.agent = ppo.before

\* C17 as stated: an update called with a Rollout whose log_probs, advantages
\* and returns are present succeeds for both settings of clip_vf_loss and
\* with values present or absent; the new agent differs from the old only in
\* policy, value_function and key, and the metrics hold the policy loss and
\* the value-function loss.
C17_WellFormedRolloutSucceeds ==
  (ppo.outcome # "none" /\ ppo.data.kind = "Rollout" /\
   {"log_probs", "advantages", "returns"} \subseteq ppo.data.fields) =>
    /\ ppo.outcome = "ok"
    /\ ppo.agent = [ppo.before EXCEPT !.policy = ppo.agent.policy,
                                      !.value_function = ppo.agent.value_function,
                                      !.key = ppo.agent.key]
    /\ {"losses/policy_loss", "losses/value_function"} \subseteq ppo.logs

====
